---- MODULE Spec2Model ----
(***************************************************************************)
(* aioyam: the in-process message bus (BasicMessageBus), the Redis bridge  *)
(* (RedisMessageBridge) and the YNCA device client (Yamaha).               *)
(*                                                                         *)
(* Scheduling is asyncio's: one task runs at a time and gives way only at  *)
(* an await that really suspends.  Every action below is one such run,     *)
(* from one suspension point to the next.  asyncio.Queue() is unbounded,   *)
(* so "await q.put(x)" never suspends; "await q.get()" suspends only on an *)
(* empty queue; a "yield" of the listen generator hands the message to the *)
(* consumer, which may suspend in its own body before asking for the next. *)
(***************************************************************************)
EXTENDS Integers, Sequences, FiniteSets, TLC

VARIABLES
    conn,        \* BasicMessageBus.conn is set (poc.py:78)
    channels,    \* BasicMessageBus._channels, in dict insertion order
    listeners,   \* BasicMessageBus.listeners: the registered (p, q) entries
    iterOrder,   \* the order in which iterating that set yields its entries
    regOrder,    \* history: the registered entries in the order they were added
    pattern,     \* p of each listen call
    queue,       \* q of each listen call
    pc,          \* where each listen generator stands
    idx,         \* position of the generator's dict iterator
    size0,       \* dict size the iterator was created with
    emitted,     \* history: what each stream handed to its consumer, how (from
                 \* the snapshot or the queue) and after how many sends
    sentLog,     \* history: the successful sends, in order, each with the
                 \* streams live at it and the number of close() calls before it
    last,        \* outcome of the bus call made by the last step
    closeLog,    \* history: the close() calls, each with the streams live at it
    lifecycle,   \* history: the latest of connect()/close(), or "new"
    everConn,    \* history: connect() has been called
    rpc,         \* where the bridge receiver task stands
    redis,       \* the bridge's broker connection
    published,   \* history: what the bridge sender published
    bridgeLog,   \* history: the bridge's calls on the broker connection other
                 \* than the publishes that went through, the cancellations
                 \* of its tasks and the close of the connection, in order
    selfTimeout, \* Yamaha.timeout
    ypc,         \* where the get/put call stands
    ycall,       \* the call: op, value and timeout argument
    ytimeout,    \* put's local "timeout" after "timeout or self.timeout"
    yreqs,       \* history: the requests issued, with how each ended and the
                 \* lines each had read
    ylines,      \* ynca_request's "response" list
    yresult,     \* what the call returned
    yconn,       \* the device connection of ynca_request: its reader and writer
    fcall,       \* a call of a pure function: its name and arguments
    fret         \* what that call returned, or "pending"

busVars == <<conn, channels, listeners, iterOrder, regOrder, pattern, queue, pc, idx, size0,
             emitted, sentLog, last, closeLog, lifecycle, everConn, rpc, redis, published,
             bridgeLog>>

yamVars == <<selfTimeout, ypc, ycall, ytimeout, yreqs, ylines, yresult, yconn>>

funVars == <<fcall, fret>>

vars == <<busVars, yamVars, funVars>>

---------------------------------------------------------------------------
(* Bounds *)

MaxSends == 3
MaxCloses == 2
MaxT == 2
MaxLines == 2
MaxPatLen == 2
MaxSubLen == 3

(* Program constants *)

DefaultTimeout == 1    \* Yamaha.timeout = 0.05, the unit of the timeouts here

---------------------------------------------------------------------------
(* Strings are sequences of one-character strings. *)

KeyAB == <<"a", ".", "b">>
KeyAC == <<"a", ".", "c">>
KeyX == <<"x">>
KeyADot == <<"a", ".">>

SendKeys == {KeyAB, KeyAC, KeyX, KeyADot}

PatADot == <<"a", ".">>
PatAll == <<>>

Patterns == {PatADot, PatAll}

BridgePattern == PatADot

Snd == "snd"
Generic == {"l1"}
Fan == {"l1", "l2"}
Lst == Fan \cup {Snd}

(* Two characters stand for the letters whose case mappings are not each  *)
(* other's inverse: "sz" is U+00DF (sharp s) and "SZ" is U+1E9E (capital   *)
(* sharp s).  str.upper maps U+00DF to the two letters "SS" and leaves     *)
(* U+1E9E alone; str.lower maps U+1E9E to U+00DF.                          *)
UpperChar(c) ==
    CASE c = "a" -> "A"
      [] c = "b" -> "B"
      [] c = "c" -> "C"
      [] c = "d" -> "D"
      [] c = "g" -> "G"
      [] c = "l" -> "L"
      [] c = "o" -> "O"
      [] c = "s" -> "S"
      [] c = "t" -> "T"
      [] c = "x" -> "X"
      [] OTHER -> c

LowerChar(c) ==
    CASE c = "A" -> "a"
      [] c = "C" -> "c"
      [] c = "S" -> "s"
      [] c = "T" -> "t"
      [] c = "SZ" -> "sz"
      [] OTHER -> c

RECURSIVE upper(_)
upper(s) ==
    IF s = <<>> THEN <<>>
    ELSE (IF Head(s) = "sz" THEN <<"S", "S">> ELSE <<UpperChar(Head(s))>>)
            \o upper(Tail(s))

lower(s) == [i \in 1..Len(s) |-> LowerChar(s[i])]

startswith(s, p) == Len(p) <= Len(s) /\ SubSeq(s, 1, Len(p)) = p

endswith(s, c) == Len(s) > 0 /\ s[Len(s)] = c

(* DotPattern.match.  The conditional expression binds looser than "+", so *)
(* the prefix is the pattern itself when it ends in "." and "." otherwise. *)
DotMatchNoWildcard(p, subject) ==
    IF upper(p) = upper(subject)
    THEN TRUE
    ELSE LET prefix == IF p # <<>> /\ p[Len(p)] = "." THEN p \o <<>> ELSE <<".">>
         IN  startswith(upper(subject), upper(prefix))

DotMatchCaseSensitive(p, subject) ==
    IF p = subject \/ p \in {<<>>, <<".">>}
    THEN TRUE
    ELSE LET prefix == IF p[Len(p)] = "." THEN p \o <<>> ELSE <<".">>
         IN  startswith(subject, prefix)

DotMatch(p, subject) ==
    IF upper(p) = upper(subject) \/ p \in {<<>>, <<".">>}
    THEN TRUE
    ELSE LET prefix == IF p[Len(p)] = "." THEN p \o <<>> ELSE <<".">>
         IN  startswith(upper(subject), upper(prefix))

---------------------------------------------------------------------------
(* Messages and queues *)

Message(source, key, value) == [source |-> source, key |-> key, value |-> value]

None == [source |-> "None", key |-> <<>>, value |-> 0]

PutTwice(q, m) == Append(Append(q, m), m)

PutUnlessKnown(q, m) == IF \E i \in DOMAIN channels : channels[i].key = m.key THEN q ELSE Append(q, m)

PutFront(q, m) == <<m>> \o q

Put(q, m) == Append(q, m)

set_channel_first(ch, k, v) ==
    IF \E i \in 1..Len(ch) : ch[i].key = k
    THEN ch
    ELSE Append(ch, [key |-> k, value |-> v])

set_channel_only(ch, k, v) == <<[key |-> k, value |-> v]>>

set_channel(ch, k, v) ==
    IF \E i \in 1..Len(ch) : ch[i].key = k
    THEN [i \in 1..Len(ch) |-> IF ch[i].key = k THEN [key |-> k, value |-> v] ELSE ch[i]]
    ELSE Append(ch, [key |-> k, value |-> v])

SendCheckNoConn(c, key) == IF endswith(key, ".") THEN "InvalidKey" ELSE "ok"

SendCheckNoKey(c, key) == IF ~c THEN "NotConnected" ELSE "ok"

(* The two checks that open send, in the order of the code. *)
SendCheck(c, key) ==
    IF ~c THEN "NotConnected"
    ELSE IF endswith(key, ".") THEN "InvalidKey"
    ELSE "ok"

ListenCheckNone(c) == "ok"

(* The check that opens listen. *)
ListenCheck(c) == IF ~c THEN "NotConnected" ELSE "ok"

Active(l) == pc[l] \in {"snap", "live", "wait"}

(* A sequence without its entries equal to l. *)
Remove(seq, l) == SelectSeq(seq, LAMBDA x : x # l)

(* The sequences that hold each element of S once. *)
Orderings(S) ==
    {o \in [1..Cardinality(S) -> S] : \A i, j \in DOMAIN o : o[i] = o[j] => i = j}

FanOutAll(order, pats, key) == order

FanOutRegistered(order, pats, key) == SelectSeq(regOrder, LAMBDA l : DotMatch(pats[l], key))

(* "for pattern, q in self.listeners: if pattern.match(key)": the entries  *)
(* send puts the message to, in the order the set yields them.             *)
FanOut(order, pats, key) == SelectSeq(order, LAMBDA l : DotMatch(pats[l], key))

(* The elements of a sequence. *)
Range(seq) == {seq[i] : i \in DOMAIN seq}

---------------------------------------------------------------------------
(* The listen generator together with the body of its consumer *)

(* One entry of bridgeLog. *)
Ev(op, arg) == [op |-> op, arg |-> arg]

(* The consumer's loop body on one message.  The bridge sender publishes a *)
(* message that did not come from redis and suspends in the publish; a     *)
(* redis message is skipped with no await.  A publish on a closed          *)
(* connection raises out of the loop and leaves the generator suspended.   *)
(* Any other consumer is taken to suspend in its body on every message.    *)
Body(l, st, via, msg, at) ==
    LET e == [via |-> via, msg |-> msg, at |-> Len(sentLog)]
        s == [st EXCEPT !.em = Append(@, e)]
    IN  IF l # Snd THEN [s EXCEPT !.pc = at]
        ELSE IF msg.source = "redis" THEN [s EXCEPT !.pc = "run"]
        ELSE IF st.redis = "open"
             THEN [s EXCEPT !.pc = at, !.pub = Append(@, e)]
             ELSE [s EXCEPT !.pc = "abandoned",
                            !.log = Append(@, Ev("publish", msg.key))]

RECURSIVE RunLive(_, _)
RunLive(l, st) ==
    IF st.q = <<>> THEN [st EXCEPT !.pc = "wait"]
    ELSE LET msg == Head(st.q)
             s == [st EXCEPT !.q = Tail(@)]
         IN  IF msg = None THEN [s EXCEPT !.pc = "done"]
             ELSE LET b == Body(l, s, "queue", msg, "live")
                  IN  IF b.pc = "run" THEN RunLive(l, b) ELSE b

RECURSIVE RunSnapshot(_, _, _)
RunSnapshot(l, p, st) ==
    IF st.idx > Len(channels) THEN RunLive(l, st)
    ELSE LET c == channels[st.idx]
             s == [st EXCEPT !.idx = @ + 1]
         IN  IF DotMatch(p, c.key)
             THEN LET b == Body(l, s, "snap", Message("local", c.key, c.value), "snap")
                  IN  IF b.pc = "run" THEN RunSnapshot(l, p, b) ELSE b
             ELSE RunSnapshot(l, p, s)

St(l) == [pc |-> pc[l], idx |-> idx[l], q |-> queue[l], em |-> emitted[l],
          pub |-> published, redis |-> redis, log |-> bridgeLog]

ExitedNoError(p) == p \in {"done", "cancelled", "closed"}

(* The generator has left its try statement. *)
Exited(p) == p \in {"done", "error", "cancelled", "closed"}

(* Store the outcome of a run of generator l.  The finally clause removes  *)
(* the entry when the generator has exited; its queue is then garbage.     *)
Store(l, r) ==
    /\ pc' = [pc EXCEPT ![l] = r.pc]
    /\ idx' = [idx EXCEPT ![l] = r.idx]
    /\ queue' = [queue EXCEPT ![l] = IF Exited(r.pc) THEN <<>> ELSE r.q]
    /\ emitted' = [emitted EXCEPT ![l] = r.em]
    /\ published' = r.pub
    /\ bridgeLog' = r.log
    /\ listeners' = IF Exited(r.pc) THEN listeners \ {l} ELSE listeners
    /\ iterOrder' = IF Exited(r.pc) THEN Remove(iterOrder, l) ELSE iterOrder
    /\ regOrder' = IF Exited(r.pc) THEN Remove(regOrder, l) ELSE regOrder

NoCall == [op |-> "none", key |-> <<>>, source |-> "", result |-> "", fan |-> <<>>]

(* listen up to its first suspension: the connection check, the            *)
(* registration, and the snapshot up to the first matching key.  The set   *)
(* places the new entry by its hash, which for a (DotPattern, Queue) tuple *)
(* comes from object addresses: it may land anywhere among the entries     *)
(* already there, which keep their places.                                 *)
Listen(l, p, st) ==
    /\ pc[l] = "idle"
    /\ last' = [NoCall EXCEPT !.op = "listen", !.result = ListenCheck(conn)]
    /\ IF ListenCheck(conn) # "ok"
       THEN /\ pc' = [pc EXCEPT ![l] = "failed"]
            /\ bridgeLog' = st.log
            /\ UNCHANGED <<listeners, iterOrder, regOrder, pattern, queue, idx, size0, emitted, published>>
       ELSE LET r == RunSnapshot(l, p, [st EXCEPT !.idx = 1])
            IN  /\ pattern' = [pattern EXCEPT ![l] = p]
                /\ size0' = [size0 EXCEPT ![l] = Len(channels)]
                /\ pc' = [pc EXCEPT ![l] = r.pc]
                /\ idx' = [idx EXCEPT ![l] = r.idx]
                /\ queue' = [queue EXCEPT ![l] = IF Exited(r.pc) THEN <<>> ELSE r.q]
                /\ emitted' = [emitted EXCEPT ![l] = r.em]
                /\ published' = r.pub
                /\ bridgeLog' = r.log
                /\ listeners' = IF Exited(r.pc) THEN listeners \ {l} ELSE listeners \cup {l}
                /\ regOrder' = IF Exited(r.pc) THEN regOrder ELSE Append(regOrder, l)
                /\ IF Exited(r.pc) THEN UNCHANGED iterOrder
                   ELSE \E o \in Orderings(listeners \cup {l}) :
                            /\ Remove(o, l) = iterOrder
                            /\ iterOrder' = o

ListenStart(l) ==
    /\ l # Snd
    /\ \E p \in Patterns : Listen(l, p, St(l))
    /\ UNCHANGED <<conn, channels, sentLog, closeLog, lifecycle, everConn, rpc, redis, yamVars, funVars>>

(* The consumer asks for the next message.  The dict iterator raises       *)
(* RuntimeError when the dict has changed size since it was created.       *)
Resume(l) ==
    /\ pc[l] \in {"snap", "live"}
    /\ last' = NoCall
    /\ IF pc[l] = "snap" /\ Len(channels) # size0[l]
       THEN Store(l, [St(l) EXCEPT !.pc = "error"])
       ELSE IF pc[l] = "snap"
            THEN Store(l, RunSnapshot(l, pattern[l], St(l)))
            ELSE Store(l, RunLive(l, St(l)))
    /\ UNCHANGED <<conn, channels, pattern, size0, sentLog, closeLog, lifecycle, everConn, rpc, redis, yamVars, funVars>>

(* q.get() returns to a generator that was waiting on its empty queue. *)
Wake(l) ==
    /\ pc[l] = "wait"
    /\ queue[l] # <<>>
    /\ last' = NoCall
    /\ Store(l, RunLive(l, St(l)))
    /\ UNCHANGED <<conn, channels, pattern, size0, sentLog, closeLog, lifecycle, everConn, rpc, redis, yamVars, funVars>>

(* The consumer task is cancelled.  In q.get() the CancelledError reaches  *)
(* the generator, which exits through its finally clause.  In the          *)
(* consumer's own body the generator stays suspended at its yield.         *)
Cancel(l) ==
    /\ l # Snd
    /\ Active(l)
    /\ last' = NoCall
    /\ IF pc[l] = "wait"
       THEN Store(l, [St(l) EXCEPT !.pc = "cancelled"])
       ELSE Store(l, [St(l) EXCEPT !.pc = "abandoned"])
    /\ UNCHANGED <<conn, channels, pattern, size0, sentLog, closeLog, lifecycle, everConn, rpc, redis, yamVars, funVars>>

(* The event loop closes a generator left suspended at a yield: the        *)
(* GeneratorExit runs the finally clause.                                  *)
Finalize(l) ==
    /\ pc[l] = "abandoned"
    /\ last' = NoCall
    /\ Store(l, [St(l) EXCEPT !.pc = "closed"])
    /\ UNCHANGED <<conn, channels, pattern, size0, sentLog, closeLog, lifecycle, everConn, rpc, redis, yamVars, funVars>>

---------------------------------------------------------------------------
(* The bus calls *)

Connect ==
    /\ conn' = TRUE
    /\ lifecycle' = "connected"
    /\ everConn' = TRUE
    /\ last' = [NoCall EXCEPT !.op = "connect", !.result = "ok"]
    /\ UNCHANGED <<channels, listeners, iterOrder, regOrder, pattern, queue, pc, idx, size0, emitted,
                   sentLog, closeLog, rpc, redis, published, bridgeLog,
                   yamVars, funVars>>

(* send(Message(source, key, v)); v numbers the successful sends. *)
Send(source, key) ==
    LET res == SendCheck(conn, key)
        v == Len(sentLog) + 1
        msg == Message(source, key, v)
        fan == FanOut(iterOrder, pattern, key)
    IN  /\ last' = [op |-> "send", key |-> key, source |-> source, result |-> res,
                    fan |-> IF res = "ok" THEN fan ELSE <<>>]
        /\ IF res = "ok"
           THEN /\ Len(sentLog) < MaxSends
                /\ channels' = set_channel(channels, key, v)
                /\ queue' = [l \in Lst |->
                               IF l \in Range(fan) THEN Put(queue[l], msg) ELSE queue[l]]
                /\ sentLog' = Append(sentLog,
                                [key |-> key, source |-> source,
                                 live |-> {l \in Lst : Active(l)},
                                 closes |-> Len(closeLog)])
           ELSE UNCHANGED <<channels, queue, sentLog>>
        /\ UNCHANGED <<conn, listeners, iterOrder, regOrder, pattern, pc, idx, size0, emitted,
                       closeLog, lifecycle, everConn, redis, published>>

LocalSend ==
    /\ \E k \in SendKeys : Send("local", k)
    /\ UNCHANGED <<rpc, bridgeLog, yamVars, funVars>>

Close ==
    /\ Len(closeLog) < MaxCloses
    /\ closeLog' = Append(closeLog, {l \in Lst : Active(l)})
    /\ queue' = [l \in Lst |-> IF l \in listeners THEN Put(queue[l], None) ELSE queue[l]]
    /\ conn' = FALSE
    /\ lifecycle' = "closed"
    /\ last' = [NoCall EXCEPT !.op = "close", !.result = "ok"]
    /\ UNCHANGED <<channels, listeners, iterOrder, regOrder, pattern, pc, idx, size0, emitted,
                   sentLog, everConn, rpc, redis, published, bridgeLog,
                   yamVars, funVars>>

(* status(): a report of the connection state; it raises nothing. *)
Status ==
    /\ last' = [NoCall EXCEPT !.op = "status",
                              !.result = IF conn THEN "connected" ELSE "disconnected"]
    /\ UNCHANGED <<conn, channels, listeners, iterOrder, regOrder, pattern, queue, pc, idx, size0, emitted,
                   sentLog, closeLog, lifecycle, everConn, rpc, redis, published,
                   bridgeLog, yamVars, funVars>>

---------------------------------------------------------------------------
(* The bridge *)

redis_pattern(p) == IF endswith(p, ".") THEN p \o <<"*">> ELSE p

(* Redis glob matching, for the patterns redis_pattern produces. *)
GlobMatch(g, k) ==
    IF endswith(g, "*") THEN startswith(k, SubSeq(g, 1, Len(g) - 1)) ELSE g = k

(* start: the connection is made and gather starts the receiver, which     *)
(* suspends in psubscribe, and then the sender, which runs listen up to    *)
(* its first suspension.                                                   *)
BridgeStart ==
    /\ redis = "none"
    /\ redis' = "open"
    /\ rpc' = "subscribing"
    /\ Listen(Snd, BridgePattern,
              [St(Snd) EXCEPT !.redis = "open",
                              !.log = <<Ev("psubscribe", redis_pattern(BridgePattern))>>])
    /\ UNCHANGED <<conn, channels, sentLog, closeLog, lifecycle, everConn, yamVars, funVars>>

(* psubscribe returns: the receiver waits for broker messages. *)
RecvSubscribed ==
    /\ rpc = "subscribing"
    /\ redis = "open"
    /\ rpc' = "running"
    /\ last' = NoCall
    /\ UNCHANGED <<conn, channels, listeners, iterOrder, regOrder, pattern, queue, pc, idx, size0, emitted,
                   sentLog, closeLog, lifecycle, everConn, redis, published, bridgeLog,
                   yamVars, funVars>>

(* A broker message arrives and the receiver sends it on the bus as a      *)
(* "redis" message.  An error raised by send ends the receiver through its *)
(* finally clause, which unsubscribes.                                     *)
RecvMsg ==
    /\ rpc = "running"
    /\ redis = "open"
    /\ \E k \in {x \in SendKeys : GlobMatch(redis_pattern(BridgePattern), x)} :
          /\ Send("redis", k)
          /\ IF SendCheck(conn, k) = "ok"
             THEN UNCHANGED <<rpc, bridgeLog>>
             ELSE /\ rpc' = "failed"
                  /\ bridgeLog' = Append(bridgeLog,
                                     Ev("punsubscribe", redis_pattern(BridgePattern)))
    /\ UNCHANGED <<yamVars, funVars>>

(* The task running start is cancelled while it awaits gather, with no     *)
(* child failed yet.  gather cancels its children in the order it was      *)
(* given them: the receiver, then the sender.  The receiver logs the       *)
(* CancelledError and suspends in the punsubscribe of its finally clause.  *)
(* The sender, when it waits in q.get(), has the generator exit through    *)
(* its finally clause; when it is suspended in publish, the CancelledError *)
(* leaves the generator suspended at its yield.                            *)
BridgeCancel ==
    /\ redis = "open"
    /\ rpc \in {"subscribing", "running"}
    /\ pc[Snd] \notin {"failed", "error"}
    /\ rpc' = "unsubscribing"
    /\ last' = NoCall
    /\ LET cr == Append(bridgeLog, Ev("cancel", "receiver"))
           cs == IF Active(Snd) THEN Append(cr, Ev("cancel", "sender")) ELSE cr
           lg == Append(cs, Ev("punsubscribe", redis_pattern(BridgePattern)))
       IN  IF pc[Snd] = "wait"
           THEN Store(Snd, [St(Snd) EXCEPT !.pc = "cancelled", !.log = lg])
           ELSE IF Active(Snd)
                THEN Store(Snd, [St(Snd) EXCEPT !.pc = "abandoned", !.log = lg])
                ELSE Store(Snd, [St(Snd) EXCEPT !.log = lg])
    /\ UNCHANGED <<conn, channels, pattern, size0, sentLog, closeLog, lifecycle, everConn,
                   redis, yamVars, funVars>>

(* punsubscribe returns to the cancelled receiver, which ends. *)
RecvUnsubscribed ==
    /\ rpc = "unsubscribing"
    /\ redis = "open"
    /\ rpc' = "cancelled"
    /\ last' = NoCall
    /\ UNCHANGED <<conn, channels, listeners, iterOrder, regOrder, pattern, queue, pc, idx, size0, emitted,
                   sentLog, closeLog, lifecycle, everConn, redis, published, bridgeLog,
                   yamVars, funVars>>

BridgeFinishNoWait ==
    /\ redis = "open"
    /\ rpc \in {"failed", "unsubscribing", "cancelled"} \/ pc[Snd] \in {"failed", "error"}
    /\ redis' = "closed"
    /\ bridgeLog' = Append(bridgeLog, Ev("close", ""))
    /\ last' = NoCall
    /\ UNCHANGED <<conn, channels, listeners, iterOrder, regOrder, pattern, queue, pc, idx,
                   size0, emitted, sentLog, closeLog, lifecycle, everConn, rpc, published,
                   yamVars, funVars>>

(* The await of gather ends in start: with the first exception of the      *)
(* receiver or the sender, as soon as it is raised, or, after a            *)
(* cancellation, with the CancelledError once both children have ended.    *)
(* start logs it and closes the connection.                                *)
BridgeFinish ==
    /\ redis = "open"
    /\ \/ rpc = "failed"
       \/ pc[Snd] \in {"failed", "error"}
       \/ rpc = "cancelled" /\ ~Active(Snd)
    /\ redis' = "closed"
    /\ bridgeLog' = Append(bridgeLog, Ev("close", ""))
    /\ last' = NoCall
    /\ UNCHANGED <<conn, channels, listeners, iterOrder, regOrder, pattern, queue, pc, idx, size0, emitted,
                   sentLog, closeLog, lifecycle, everConn, rpc, published, yamVars, funVars>>

(* The receiver's channel ends with the connection: wait_message returns   *)
(* False, the loop ends and the finally clause calls punsubscribe.         *)
RecvEnd ==
    /\ rpc \in {"subscribing", "running"}
    /\ redis = "closed"
    /\ rpc' = "stopped"
    /\ bridgeLog' = Append(bridgeLog, Ev("punsubscribe", redis_pattern(BridgePattern)))
    /\ last' = NoCall
    /\ UNCHANGED <<conn, channels, listeners, iterOrder, regOrder, pattern, queue, pc, idx, size0, emitted,
                   sentLog, closeLog, lifecycle, everConn, redis, published,
                   yamVars, funVars>>

---------------------------------------------------------------------------
(* The YNCA client (yamaha.py) *)

(* One response line, as readuntil returns it, without its CRLF. *)
NV(n, v) == [kind |-> "nv", name |-> n, value |-> v]
Tok(t) == [kind |-> "token", name |-> t, value |-> ""]
BadLine == [kind |-> "bad", name |-> "garbage", value |-> ""]
EmptyLine == [kind |-> "empty", name |-> "", value |-> ""]

ErrorTokens == {"@UNDEFINED", "@RESTRICTED", "@ERROR"}

DeviceLines == {NV("@MAIN:PWR", "Standby"), NV("@MAIN:AVAIL", "Not Ready"),
                Tok("@ERROR"), BadLine, EmptyLine}

NoneResult == [kind |-> "None", response |-> "", fields |-> <<>>]
Raised == [kind |-> "raise", response |-> "", fields |-> <<>>]
Dict(r, f) == [kind |-> "dict", response |-> r, fields |-> f]

(* data.rstrip('\r\n'): the trailing terminators go, and with them every   *)
(* trailing empty line.                                                    *)
RECURSIVE rstrip(_)
rstrip(ls) ==
    IF ls # <<>> /\ ls[Len(ls)].kind = "empty"
    THEN rstrip(SubSeq(ls, 1, Len(ls) - 1))
    ELSE ls

(* results[name] = value on an ordered dict. *)
SetField(f, n, v) ==
    IF \E i \in 1..Len(f) : f[i][1] = n
    THEN [i \in 1..Len(f) |-> IF f[i][1] = n THEN <<n, v>> ELSE f[i]]
    ELSE Append(f, <<n, v>>)

FieldsNone(ls, f) == f

RECURSIVE Fields(_, _)
Fields(ls, f) ==
    IF ls = <<>> THEN f
    ELSE IF Head(ls).kind = "nv"
         THEN Fields(Tail(ls), SetField(f, Head(ls).name, Head(ls).value))
         ELSE Fields(Tail(ls), f)

decode_response_strict(ls) ==
    IF rstrip(ls) = <<>> THEN Raised ELSE Dict("@OK", Fields(rstrip(ls), <<>>))

(* The response holds a non-empty line that is not NAME=VALUE, and is not  *)
(* an error token alone.                                                   *)
Malformed(ls) ==
    LET r == rstrip(ls)
    IN  /\ \E i \in 1..Len(r) : r[i].kind \in {"token", "bad"}
        /\ ~(Len(r) = 1 /\ r[1].kind = "token" /\ r[1].name \in ErrorTokens)

(* decode_response.  A non-empty line without "=" makes exp.match return   *)
(* None, and m.group raises AttributeError.                                *)
decode_response(ls) ==
    LET r == rstrip(ls)
    IN  IF Len(r) = 1 /\ r[1].kind = "token" /\ r[1].name \in ErrorTokens
        THEN Dict("@ERROR", <<>>)
        ELSE IF \E i \in 1..Len(r) : r[i].kind \in {"token", "bad"}
             THEN Raised
             ELSE Dict("@OK", Fields(r, <<>>))

(* Python's "a or b" on timeouts; a missing argument (None) counts as 0. *)
Or(a, b) == IF a # 0 THEN a ELSE b

(* Python's "not x" on what request returns: None, or a dict that always   *)
(* holds the 'response' key.                                               *)
Not(x) == x.kind = "None"

(* Yamaha.request up to its await of the connection. *)
Request(value, timeout) ==
    /\ yreqs' = Append(yreqs, [value |-> value, timeout |-> Or(timeout, selfTimeout),
                               outcome |-> "pending", nlines |-> 0, bad |-> FALSE,
                                       lines |-> <<>>])
    /\ ylines' = <<>>
    /\ ypc' = "connecting"

SetTimeout ==
    /\ ypc = "idle"
    /\ \E t \in 0..MaxT : selfTimeout' = t
    /\ UNCHANGED <<ypc, ycall, ytimeout, yreqs, ylines, yresult, yconn, busVars, funVars>>

CallGet ==
    /\ ypc = "idle"
    /\ \E T \in 0..MaxT :
          /\ ycall' = [op |-> "get", T |-> T, frame |-> "get"]
          /\ Request("?", Or(T, selfTimeout))
    /\ UNCHANGED <<selfTimeout, ytimeout, yresult, yconn, busVars, funVars>>

CallPut ==
    /\ ypc = "idle"
    /\ \E T \in 0..MaxT :
          /\ ycall' = [op |-> "put", T |-> T, frame |-> "put"]
          /\ ytimeout' = Or(T, selfTimeout)
          /\ Request("value", Or(T, selfTimeout))
    /\ UNCHANGED <<selfTimeout, yresult, yconn, busVars, funVars>>

FinishUnbounded(x0, outcome) ==
    LET x == IF x0.kind = "raise" THEN NoneResult ELSE x0
        done == [yreqs EXCEPT ![Len(yreqs)].outcome = outcome,
                              ![Len(yreqs)].nlines = Len(ylines),
                              ![Len(yreqs)].bad = Malformed(ylines),
                              ![Len(yreqs)].lines = ylines]
    IN  IF Not(x) /\ ytimeout # 0
        THEN /\ ycall' = [ycall EXCEPT !.frame = "get"]
             /\ yreqs' = Append(done, [value |-> "?",
                                       timeout |-> Or(Or(ytimeout * 2, selfTimeout), selfTimeout),
                                       outcome |-> "pending", nlines |-> 0, bad |-> FALSE,
                                       lines |-> <<>>])
             /\ ylines' = <<>>
             /\ ypc' = "connecting"
             /\ UNCHANGED yresult
        ELSE /\ yreqs' = done
             /\ ypc' = "returned"
             /\ yresult' = x
             /\ UNCHANGED <<ycall, ylines>>

(* request has returned x0 (or raised inside its try); the caller goes on. *)
Finish(x0, outcome) ==
    LET x == IF x0.kind = "raise" THEN NoneResult ELSE x0
        done == [yreqs EXCEPT ![Len(yreqs)].outcome = outcome,
                              ![Len(yreqs)].nlines = Len(ylines),
                              ![Len(yreqs)].bad = Malformed(ylines),
                              ![Len(yreqs)].lines = ylines]
    IN  IF ycall.frame = "put" /\ Not(x) /\ ytimeout # 0
        THEN /\ ycall' = [ycall EXCEPT !.frame = "get"]
             /\ yreqs' = Append(done, [value |-> "?",
                                       timeout |-> Or(Or(ytimeout * 2, selfTimeout), selfTimeout),
                                       outcome |-> "pending", nlines |-> 0, bad |-> FALSE,
                                       lines |-> <<>>])
             /\ ylines' = <<>>
             /\ ypc' = "connecting"
             /\ UNCHANGED yresult
        ELSE /\ yreqs' = done
             /\ ypc' = "returned"
             /\ yresult' = x
             /\ UNCHANGED <<ycall, ylines>>

(* open_connection raises; request's "except Exception" returns None. *)
ConnectFail ==
    /\ ypc = "connecting"
    /\ Finish(NoneResult, "connfail")
    /\ UNCHANGED <<selfTimeout, ytimeout, yconn, busVars, funVars>>

(* open_connection returns and the message is written. *)
ConnectOk ==
    /\ ypc = "connecting"
    /\ ypc' = "reading"
    /\ yconn' = "open"
    /\ UNCHANGED <<selfTimeout, ycall, ytimeout, yreqs, ylines, yresult, busVars, funVars>>

CurrentTimeout == yreqs[Len(yreqs)].timeout

(* readuntil returns a line before the timeout. *)
ReadLine ==
    /\ ypc = "reading"
    /\ CurrentTimeout > 0
    /\ Len(ylines) < MaxLines
    /\ \E c \in DeviceLines : ylines' = Append(ylines, c)
    /\ UNCHANGED <<selfTimeout, ypc, ycall, ytimeout, yreqs, yresult, yconn, busVars, funVars>>

(* readuntil returns yet another line before the timeout when the         *)
(* response list already holds MaxLines lines: the loop has no limit of    *)
(* its own and appends it.  Of a longer response the model keeps the       *)
(* first MaxLines - 1 lines and the latest one.                            *)
ReadMore ==
    /\ ypc = "reading"
    /\ CurrentTimeout > 0
    /\ Len(ylines) = MaxLines
    /\ \E c \in DeviceLines : ylines' = [ylines EXCEPT ![MaxLines] = c]
    /\ UNCHANGED <<selfTimeout, ypc, ycall, ytimeout, yreqs, yresult, yconn, busVars, funVars>>

(* wait_for raises TimeoutError: the loop ends, the writer is closed and   *)
(* the response is decoded.                                                *)
ReadTimeout ==
    /\ ypc = "reading"
    /\ yconn' = "closed"
    /\ Finish(decode_response(ylines), "timeout")
    /\ UNCHANGED <<selfTimeout, ytimeout, busVars, funVars>>

(* The peer closes: readuntil raises IncompleteReadError. *)
ReadEOF ==
    /\ ypc = "reading"
    /\ yconn' = "closed"
    /\ Finish(decode_response(ylines), "eof")
    /\ UNCHANGED <<selfTimeout, ytimeout, busVars, funVars>>

(* The task awaiting get or put is cancelled while ynca_request is         *)
(* suspended, in open_connection or in a read.  The CancelledError is      *)
(* caught neither by the read loop nor by request's "except Exception",    *)
(* and no finally clause stands between the read and writer.close().       *)
YCancel ==
    /\ ypc \in {"connecting", "reading"}
    /\ ypc' = "cancelled"
    /\ yreqs' = [yreqs EXCEPT ![Len(yreqs)].outcome = "cancelled",
                              ![Len(yreqs)].nlines = Len(ylines),
                              ![Len(yreqs)].bad = Malformed(ylines),
                              ![Len(yreqs)].lines = ylines]
    /\ UNCHANGED <<selfTimeout, ycall, ytimeout, ylines, yresult, yconn, busVars, funVars>>

---------------------------------------------------------------------------
(* Calls of the pure functions: DotPattern(p).match(s) and                 *)
(* decode_response(data).                                                  *)

MatchChars == {"a", "A", ".", "sz", "SZ"}

RECURSIVE Strings(_)
Strings(n) ==
    IF n = 0 THEN {<<>>}
    ELSE LET shorter == Strings(n - 1)
         IN  shorter \cup {Append(w, c) : w \in {x \in shorter : Len(x) = n - 1},
                                          c \in MatchChars}

Cat == <<"c", "a", "t">>
CatUpper == <<"C", "A", "T">>
CatDog == <<"c", "a", "t", ".", "d", "o", "g">>
Catalog == <<"c", "a", "t", "a", "l", "o", "g">>

MatchPatterns == Strings(MaxPatLen) \cup {Cat}
MatchSubjects == Strings(MaxSubLen) \cup {Cat, CatUpper, CatDog, Catalog}

(* DeviceLines, a line that repeats a name, and a second error token. *)
DecodeLines == DeviceLines \cup {NV("@MAIN:PWR", "On"), Tok("@RESTRICTED")}

RECURSIVE Responses(_)
Responses(n) ==
    IF n = 0 THEN {<<>>}
    ELSE LET shorter == Responses(n - 1)
         IN  shorter \cup {Append(w, c) : w \in {x \in shorter : Len(x) = n - 1},
                                          c \in DecodeLines}

Pending == [kind |-> "pending"]
Bool(b) == [kind |-> "bool", val |-> b]

MatchCall ==
    /\ fcall.fn = "match"
    /\ fret = Pending
    /\ fret' = Bool(DotMatch(fcall.p, fcall.s))
    /\ UNCHANGED <<fcall, busVars, yamVars>>

DecodeCall ==
    /\ fcall.fn = "decode"
    /\ fret = Pending
    /\ fret' = decode_response(fcall.ls)
    /\ UNCHANGED <<fcall, busVars, yamVars>>

---------------------------------------------------------------------------

InitBus ==
    /\ conn = FALSE
    /\ channels = <<>>
    /\ listeners = {}
    /\ iterOrder = <<>>
    /\ regOrder = <<>>
    /\ pattern = [l \in Lst |-> <<>>]
    /\ queue = [l \in Lst |-> <<>>]
    /\ pc = [l \in Lst |-> "idle"]
    /\ idx = [l \in Lst |-> 0]
    /\ size0 = [l \in Lst |-> 0]
    /\ emitted = [l \in Lst |-> <<>>]
    /\ sentLog = <<>>
    /\ last = NoCall
    /\ closeLog = <<>>
    /\ lifecycle = "new"
    /\ everConn = FALSE
    /\ rpc = "idle"
    /\ redis = "none"
    /\ published = <<>>
    /\ bridgeLog = <<>>

InitYam ==
    /\ selfTimeout = DefaultTimeout
    /\ ypc = "idle"
    /\ ycall = [op |-> "none", T |-> 0, frame |-> "none"]
    /\ ytimeout = 0
    /\ yreqs = <<>>
    /\ ylines = <<>>
    /\ yresult = NoneResult
    /\ yconn = "none"

(* No pure function is being called. *)
InitFun ==
    /\ fcall = [fn |-> "none"]
    /\ fret = Pending

Init == InitBus /\ InitYam /\ InitFun

NextBus ==
    \/ Connect
    \/ LocalSend
    \/ Close
    \/ Status
    \/ \E l \in Generic : ListenStart(l)
    \/ \E l \in Generic : Resume(l)
    \/ \E l \in Generic : Wake(l)
    \/ \E l \in Generic : Cancel(l)
    \/ \E l \in Generic : Finalize(l)

SpecBus == Init /\ [][NextBus]_vars

NextBridge ==
    \/ Connect
    \/ LocalSend
    \/ Close
    \/ BridgeStart
    \/ Resume(Snd)
    \/ Wake(Snd)
    \/ Finalize(Snd)
    \/ RecvSubscribed
    \/ RecvMsg
    \/ BridgeCancel
    \/ RecvUnsubscribed
    \/ BridgeFinish
    \/ RecvEnd

SpecBridge == Init /\ [][NextBridge]_vars

(* Two subscribers of the bus whose consumers are slow: they take what     *)
(* their streams yield and may be cancelled, while sends go on.            *)
NextFan ==
    \/ Connect
    \/ LocalSend
    \/ \E l \in Fan : ListenStart(l)
    \/ \E l \in Fan : Resume(l)
    \/ \E l \in Fan : Cancel(l)
    \/ \E l \in Fan : Finalize(l)

SpecFan == Init /\ [][NextFan]_vars

NextYam ==
    \/ SetTimeout
    \/ CallGet
    \/ CallPut
    \/ ConnectFail
    \/ ConnectOk
    \/ ReadLine
    \/ ReadTimeout
    \/ ReadEOF
    \/ YCancel

SpecYam == Init /\ [][NextYam]_vars

(* The await of open_connection ends, one way or the other. *)
ConnectStep == ConnectOk \/ ConnectFail

(* One await of wait_for(reader.readuntil(...), timeout) ends: with a      *)
(* line, with the timeout, or with the end of the stream.                  *)
ReadStep == ReadLine \/ ReadMore \/ ReadTimeout \/ ReadEOF

NextYamLive ==
    \/ NextYam
    \/ ReadMore

(* The client against a device that may send any number of lines.  The     *)
(* event loop resumes a task whose await has ended, and wait_for ends      *)
(* every read within its timeout: each await of the request ends.  Which   *)
(* way it ends is the device's choice, and nothing obliges a caller to     *)
(* cancel.                                                                 *)
SpecYamLive ==
    Init /\ [][NextYamLive]_vars /\ WF_vars(ConnectStep) /\ WF_vars(ReadStep)

InitPure ==
    /\ InitBus
    /\ InitYam
    /\ fcall \in {[fn |-> "match", p |-> p, s |-> s] :
                     p \in MatchPatterns, s \in MatchSubjects}
                 \cup {[fn |-> "decode", ls |-> ls] : ls \in Responses(MaxLines)}
    /\ fret = Pending

NextPure ==
    \/ MatchCall
    \/ DecodeCall

SpecPure == InitPure /\ [][NextPure]_vars

---------------------------------------------------------------------------
(* Properties *)

QEmits(l, v) ==
    Cardinality({i \in DOMAIN emitted[l] :
                   emitted[l][i].via = "queue" /\ emitted[l][i].msg.value = v})

SnapEmits(l, v) ==
    Cardinality({i \in DOMAIN emitted[l] :
                   emitted[l][i].via = "snap" /\ emitted[l][i].msg.value = v})

InQueue(l, v) == Cardinality({i \in DOMAIN queue[l] : queue[l][i].value = v})

Pubs(v) == Cardinality({i \in DOMAIN published : published[i].msg.value = v})

(* Send v was made while stream l was live, with a key l's pattern matches. *)
SentTo(l, v) == l \in sentLog[v].live /\ DotMatch(pattern[l], sentLog[v].key)

(* C1, as stated: every send made after a stream's registration, with a    *)
(* key its pattern matches, is emitted by that stream exactly once: while  *)
(* the stream is live or has ended on the sentinel, the send is either     *)
(* still queued or has been emitted once, and never both or twice.         *)
C1_EmittedExactlyOnce ==
    \A l \in Lst : \A v \in 1..Len(sentLog) :
        (SentTo(l, v) /\ pc[l] \in {"snap", "live", "wait"})
            => QEmits(l, v) + SnapEmits(l, v) + InQueue(l, v) = 1

(* C1, amended: every such send is put on the stream's queue exactly once  *)
(* and emitted from the queue at most once (while the stream is live it is *)
(* either still queued or has been emitted from the queue once); the       *)
(* snapshot may emit the same send at most once more.                      *)
C1_QueuedOnceEmittedOnce ==
    \A l \in Lst : \A v \in 1..Len(sentLog) :
        SentTo(l, v) =>
            /\ QEmits(l, v) + InQueue(l, v) <= 1
            /\ SnapEmits(l, v) <= 1
            /\ Active(l) => QEmits(l, v) + InQueue(l, v) = 1

(* C1 witness: a send made after registration was emitted from the queue   *)
(* and also, having raced with the snapshot, from the snapshot.            *)
C1_Witness ==
    \E l \in Generic : \E v \in 1..Len(sentLog) :
        SentTo(l, v) /\ QEmits(l, v) = 1 /\ SnapEmits(l, v) = 1

(* C2: nothing the bridge sender published carries a value that entered    *)
(* the bus through the bridge receiver.                                    *)
C2_NoEcho ==
    \A i \in DOMAIN published : sentLog[published[i].msg.value].source # "redis"

(* C3: while the bridge runs, every local send made while the sender's     *)
(* stream is live, with a key the bridge pattern matches, is published     *)
(* exactly once: it is still queued for the sender or published once.      *)
C3_RelayedExactlyOnce ==
    \A v \in 1..Len(sentLog) :
        (/\ sentLog[v].source = "local"
         /\ SentTo(Snd, v)
         /\ redis = "open"
         /\ Active(Snd))
            => Pubs(v) + InQueue(Snd, v) = 1

(* C4: a put with T > 0 whose own request connected and timed out with no  *)
(* response line issues exactly one follow-up get(name, 2T).               *)
C4_PutFallback ==
    (/\ ycall.op = "put"
     /\ ycall.T > 0
     /\ Len(yreqs) >= 1
     /\ yreqs[1].outcome = "timeout"
     /\ yreqs[1].nlines = 0)
        => (/\ Len(yreqs) = 2
            /\ yreqs[2].value = "?"
            /\ yreqs[2].timeout = 2 * ycall.T)

(* C5: no request follows a request whose connection failed, and a call    *)
(* that ends on a connection failure returns None, which is not the        *)
(* result of a timed-out request.                                          *)
C5_ConnectionFailureTerminal ==
    /\ \A i \in 1..Len(yreqs) : yreqs[i].outcome = "connfail" => i = Len(yreqs)
    /\ (ypc = "returned" /\ yreqs[Len(yreqs)].outcome = "connfail")
          => (yresult = NoneResult /\ yresult # decode_response(<<>>))

(* C6: a stream that was live at a close() does not end with an error. *)
C6_NoErrorAfterClose ==
    \A i \in DOMAIN closeLog : \A l \in closeLog[i] : pc[l] # "error"

SendStep == last'.op = "send"

NoEffect == UNCHANGED <<channels, queue, listeners, conn>>

(* C7, as stated: once close() has been called, every send fails with      *)
(* NotConnected and changes neither the ChannelStore nor a queue.          *)
C7_CloseTerminal ==
    [][(closeLog # <<>> /\ SendStep)
          => (last'.result = "NotConnected" /\ NoEffect)]_vars

(* C7, amended: from a close() until the next connect(), every send fails  *)
(* with NotConnected and changes neither the ChannelStore nor a queue.     *)
C7_ClosedUntilConnect ==
    [][(lifecycle = "closed" /\ SendStep)
          => (last'.result = "NotConnected" /\ NoEffect)]_vars

(* C7 witness: a send was refused on a closed bus that holds channels. *)
C7_Witness ==
    /\ lifecycle = "closed"
    /\ last.op = "send"
    /\ last.result = "NotConnected"
    /\ channels # <<>>

SnapPart(l) == SelectSeq(emitted[l], LAMBDA e : e.via = "snap")

MatchingKeys(l, n) ==
    LET m == SelectSeq(SubSeq(channels, 1, n), LAMBDA c : DotMatch(pattern[l], c.key))
    IN  [i \in 1..Len(m) |-> m[i].key]

LastSendTo(k, n) ==
    CHOOSE v \in 1..n :
        /\ sentLog[v].key = k
        /\ \A w \in (v + 1)..n : sentLog[w].key # k

(* C9: a stream emits its snapshot before any queued message; the snapshot *)
(* holds one message per matching key of the ChannelStore, in store order, *)
(* each with source "local" and the value of the last send to its key; and *)
(* a stream that has reached its queue has emitted all the matching keys.  *)
C9_Snapshot ==
    \A l \in Lst :
        LET snap == SnapPart(l)
        IN  /\ \A i, j \in DOMAIN emitted[l] :
                  (i < j /\ emitted[l][i].via = "queue") => emitted[l][j].via = "queue"
            /\ [i \in 1..Len(snap) |-> snap[i].msg.key] = MatchingKeys(l, idx[l] - 1)
            /\ \A i \in 1..Len(snap) :
                  /\ snap[i].msg.source = "local"
                  /\ snap[i].msg.value = LastSendTo(snap[i].msg.key, snap[i].at)
            /\ pc[l] \in {"live", "wait", "done", "cancelled"}
                  => [i \in 1..Len(snap) |-> snap[i].msg.key] = MatchingKeys(l, size0[l])

(* C9 witness: a stream has finished a snapshot that carries a value which *)
(* overwrote an earlier send to the same key.                              *)
C9_Witness ==
    \E l \in Generic :
        /\ pc[l] \in {"live", "wait"}
        /\ \E i \in DOMAIN emitted[l] :
              /\ emitted[l][i].via = "snap"
              /\ \E w \in 1..(emitted[l][i].msg.value - 1) :
                    sentLog[w].key = emitted[l][i].msg.key

InvalidSendStep == SendStep /\ endswith(last'.key, ".")

(* C10, as stated: a send whose key ends in "." fails with InvalidKey and  *)
(* has no effect.                                                          *)
C10_InvalidKey ==
    [][InvalidSendStep => (last'.result = "InvalidKey" /\ NoEffect)]_vars

(* C10, amended: a send whose key ends in "." has no effect; it fails with *)
(* InvalidKey on a connected bus and with NotConnected otherwise.          *)
C10_InvalidKeyWhenConnected ==
    [][InvalidSendStep
          => (/\ last'.result = (IF conn THEN "InvalidKey" ELSE "NotConnected")
              /\ NoEffect)]_vars

(* C10 witness: a send was refused with InvalidKey on a bus that has a     *)
(* registered stream and a channel.                                        *)
C10_Witness ==
    /\ last.op = "send"
    /\ last.result = "InvalidKey"
    /\ listeners # {}
    /\ channels # <<>>

BusOpStep == last'.op \in {"send", "listen", "status", "close"}

(* C11, as stated: on a bus on which connect has not been called, every    *)
(* send, listen, status and close fails with NotConnected and changes      *)
(* neither the ChannelStore nor the subscriber set.                        *)
C11_NotConnected ==
    [][(~everConn /\ BusOpStep)
          => (last'.result = "NotConnected" /\ UNCHANGED <<channels, listeners>>)]_vars

(* C11, amended: on a bus on which connect has not been called, send and   *)
(* listen fail with NotConnected, status reports "disconnected" and close  *)
(* returns normally; none of them changes the ChannelStore, the subscriber *)
(* set or the connection.                                                  *)
C11_BeforeConnect ==
    [][(~everConn /\ BusOpStep)
          => (/\ last'.result = CASE last'.op \in {"send", "listen"} -> "NotConnected"
                                  [] last'.op = "status" -> "disconnected"
                                  [] last'.op = "close" -> "ok"
              /\ UNCHANGED <<channels, listeners, conn>>)]_vars

(* C11 witness: listen was refused on a bus that was never connected and   *)
(* on which close has already returned.                                    *)
C11_Witness ==
    /\ ~everConn
    /\ closeLog # <<>>
    /\ last.op = "listen"
    /\ last.result = "NotConnected"

Matched == fcall.fn = "match" /\ fret # Pending

(* The dot-hierarchical relation the claim describes: equal ignoring case, *)
(* or the subject starts, ignoring case, with the pattern followed by one  *)
(* separator (none added when the pattern already ends with one).          *)
Hierarchical(p, s) ==
    \/ upper(s) = upper(p)
    \/ startswith(upper(s), upper(IF endswith(p, ".") THEN p ELSE p \o <<".">>))

(* C12: for every pattern other than "" and ".", match is true exactly     *)
(* when the subject equals the pattern ignoring case or starts with the    *)
(* pattern followed by one separator.                                      *)
C12_DotHierarchical ==
    (Matched /\ fcall.p \notin {<<>>, <<".">>})
        => fret = Bool(Hierarchical(fcall.p, fcall.s))

(* C13: the patterns "" and "." match every subject. *)
C13_MatchAll ==
    (Matched /\ fcall.p \in {<<>>, <<".">>}) => fret = Bool(TRUE)

(* C13 witness: the pattern "." has matched the empty subject. *)
C13_Witness ==
    Matched /\ fcall.p = <<".">> /\ fcall.s = <<>> /\ fret = Bool(TRUE)

(* C14, as stated: match(p, s) has the result of match(upper(p), upper(s)) *)
(* and of match(lower(p), lower(s)), for every pattern and subject.        *)
C14_CaseInsensitive ==
    Matched => /\ fret = Bool(DotMatch(upper(fcall.p), upper(fcall.s)))
               /\ fret = Bool(DotMatch(lower(fcall.p), lower(fcall.s)))

(* Upper-casing the string gives what upper-casing its lower case gives:   *)
(* true of ASCII strings, false of a string that holds U+1E9E.             *)
CaseRegular(w) == upper(lower(w)) = upper(w)

(* C14, amended: match(p, s) has the result of match(upper(p), upper(s))   *)
(* for every pattern and subject, and the result of                        *)
(* match(lower(p), lower(s)) when upper-casing the lower-cased pattern and *)
(* subject gives the same strings as upper-casing them directly.           *)
C14_CaseInsensitiveRegular ==
    Matched => /\ fret = Bool(DotMatch(upper(fcall.p), upper(fcall.s)))
               /\ (CaseRegular(fcall.p) /\ CaseRegular(fcall.s))
                     => fret = Bool(DotMatch(lower(fcall.p), lower(fcall.s)))

(* C14 witness: a pattern and a subject that differ only in case, one of   *)
(* them holding the sharp s, have matched.                                 *)
C14_Witness ==
    /\ Matched
    /\ fcall.p = <<"a", "sz">>
    /\ fcall.s = <<"A", "sz">>
    /\ fret = Bool(TRUE)

(* C15: a put with timeout 0 does not wait for a response line (its       *)
(* request runs with timeout 0 and reads no line) and issues no second     *)
(* request.                                                                *)
C15_FireAndForget ==
    (ycall.op = "put" /\ ycall.T = 0)
        => (/\ Len(yreqs) <= 1
            /\ \A i \in 1..Len(yreqs) : yreqs[i].timeout = 0 /\ yreqs[i].nlines = 0
            /\ ylines = <<>>)

(* C16: one put issues at most two requests, the second being the get; the *)
(* follow-up get issues no request of its own; one get issues exactly one  *)
(* request.                                                                *)
C16_FallbackBounded ==
    /\ ycall.op = "put" => (/\ Len(yreqs) \in 1..2
                            /\ yreqs[1].value = "value"
                            /\ Len(yreqs) = 2 => yreqs[2].value = "?")
    /\ ycall.op = "get" => (Len(yreqs) = 1 /\ yreqs[1].value = "?")

(* C16 witness: a put has returned after its follow-up get timed out with  *)
(* no response line.                                                       *)
C16_Witness ==
    /\ ycall.op = "put"
    /\ ypc = "returned"
    /\ Len(yreqs) = 2
    /\ yreqs[2].outcome = "timeout"
    /\ yreqs[2].nlines = 0

(* C17: a get whose device sent nothing before the timeout returns the     *)
(* decoded empty response, a normal value, and issues no further request.  *)
C17_GetNoAnswer ==
    (/\ ycall.op = "get"
     /\ ypc = "returned"
     /\ yreqs[1].outcome = "timeout"
     /\ yreqs[1].nlines = 0)
        => (yresult = Dict("@OK", <<>>) /\ Len(yreqs) = 1)

(* C17 witness: a get with an explicit timeout has returned after the      *)
(* device stayed silent.                                                   *)
C17_Witness ==
    /\ ycall.op = "get"
    /\ ycall.T = MaxT
    /\ ypc = "returned"
    /\ yreqs[1].outcome = "timeout"
    /\ yreqs[1].nlines = 0
    /\ yresult.kind = "dict"

Decoded == fcall.fn = "decode" /\ fret # Pending

(* One <<name, value>> pair per NAME=VALUE line, in line order. *)
RECURSIVE FieldPerLine(_)
FieldPerLine(ls) ==
    IF ls = <<>> THEN <<>>
    ELSE IF Head(ls).kind = "nv"
         THEN <<<<Head(ls).name, Head(ls).value>>>> \o FieldPerLine(Tail(ls))
         ELSE FieldPerLine(Tail(ls))

(* C18: with the trailing terminators stripped, a response that is one     *)
(* error token decodes to ERROR with no fields; any other response decodes *)
(* to OK with one field per non-empty NAME=VALUE line, in line order; the  *)
(* empty response decodes to OK with no fields.                            *)
C18_Decode ==
    Decoded =>
        LET r == rstrip(fcall.ls)
        IN  IF Len(r) = 1 /\ r[1].kind = "token" /\ r[1].name \in ErrorTokens
            THEN fret = Dict("@ERROR", <<>>)
            ELSE fret = Dict("@OK", FieldPerLine(r))

(* C19: a malformed response is decoded to status ERROR: the call that     *)
(* read it returns that result, not None, and no request follows the       *)
(* request that read it.                                                   *)
C19_MalformedIsError ==
    /\ \A i \in 1..Len(yreqs) : yreqs[i].bad => i = Len(yreqs)
    /\ (ypc = "returned" /\ yreqs[Len(yreqs)].bad)
          => (yresult.kind = "dict" /\ yresult.response = "@ERROR")

(* A close() on a bus that was closed and has not been connected since. *)
CloseAgainStep == lifecycle = "closed" /\ last'.op = "close"

Sentinels(q) == Cardinality({i \in DOMAIN q : q[i] = None})

(* C20, as stated: a second close() leaves the connection state, the       *)
(* ChannelStore, the subscriber set and every subscriber queue as the      *)
(* first close() left them.                                                *)
C20_CloseIdempotent ==
    [][CloseAgainStep => UNCHANGED <<conn, channels, listeners, queue>>]_vars

(* C20, amended: a second close() leaves the connection state, the         *)
(* ChannelStore and the subscriber set as they were, and puts one more     *)
(* sentinel at the end of the queue of every subscription that is still    *)
(* registered.                                                             *)
C20_CloseAgain ==
    [][CloseAgainStep
          => (/\ UNCHANGED <<conn, channels, listeners>>
              /\ queue' = [l \in Lst |-> IF l \in listeners
                                         THEN Append(queue[l], None)
                                         ELSE queue[l]])]_vars

(* C20 witness: after the second close() a subscription that is still      *)
(* registered holds a message and two sentinels in its queue.              *)
C20_Witness ==
    /\ last.op = "close"
    /\ Len(closeLog) = 2
    /\ ~conn
    /\ \E l \in listeners : Sentinels(queue[l]) = 2 /\ Len(queue[l]) = 3

(* C21: when the receiver or the sender has failed, the bridge shuts down  *)
(* as a whole: the broker connection is closed once, and after the close   *)
(* no bridge task makes a call on it (subscribe, unsubscribe, publish):    *)
(* the close is the last entry of the bridge's history.                    *)
C21_NoBrokerOpAfterClose ==
    \A i \in DOMAIN bridgeLog :
        bridgeLog[i].op = "close" => i = Len(bridgeLog)

(* C22: once an in-flight request has been cancelled, while connecting or *)
(* while awaiting response lines, its device connection is not open.       *)
C22_CancelClosesConnection ==
    ypc = "cancelled" => yconn # "open"

(* What the mock device server of yamaha.py writes for every request. *)
MockResponse == <<NV("@MAIN:PWR", "Standby"), NV("@MAIN:AVAIL", "Not Ready")>>

(* The device behaved as the mock server does on the first request: the    *)
(* connection was made, the two lines arrived, and then nothing came       *)
(* within the timeout.                                                     *)
MockAnswered ==
    /\ yreqs # <<>>
    /\ yreqs[1].lines = MockResponse
    /\ yreqs[1].outcome = "timeout"

(* C23: against the mock device server, put("@MAIN:PWR", "Standby") with   *)
(* the default timeout returns status OK with exactly the fields           *)
(* @MAIN:PWR=Standby and @MAIN:AVAIL=Not Ready, from a single request and  *)
(* with no fallback get.                                                   *)
C23_MockPut ==
    (ycall.op = "put" /\ ycall.T = 0 /\ MockAnswered /\ ypc = "returned")
        => /\ yresult = Dict("@OK", <<<<"@MAIN:PWR", "Standby">>,
                                      <<"@MAIN:AVAIL", "Not Ready">>>>)
           /\ Len(yreqs) = 1
           /\ yreqs[1].value = "value"

(* C23 witness: a put with the default timeout has returned after the      *)
(* mock's answer, with two fields in its result.                           *)
C23_Witness ==
    /\ ycall.op = "put" /\ ycall.T = 0 /\ selfTimeout = DefaultTimeout
    /\ MockAnswered /\ ypc = "returned"
    /\ Len(yresult.fields) = 2

(* A send that went through is made by this step. *)
SendOkStep == SendStep /\ last'.result = "ok"

(* C24: send is atomic and never waits for a consumer.  The step that      *)
(* makes a send is the whole send: it appends the Message to the queue of  *)
(* every registered subscriber whose pattern matches, whatever is already  *)
(* queued there, leaves every other queue alone, and within it no stream   *)
(* moves, nothing is emitted, no subscription is added or removed and no   *)
(* close is made.                                                          *)
C24_SendAtomic ==
    [][SendOkStep =>
          /\ \A l \in Lst :
                queue'[l] = IF l \in listeners /\ DotMatch(pattern[l], last'.key)
                            THEN Append(queue[l],
                                        Message(last'.source, last'.key, Len(sentLog'))) 
                            ELSE queue[l]
          /\ Len(sentLog') = Len(sentLog) + 1
          /\ UNCHANGED <<pc, idx, emitted, listeners, closeLog, conn, published>>]_vars

(* C24 witness: a send has gone through while two subscribers each had a   *)
(* backlog of two messages, and both hold it at the end of their queues.   *)
C24_Witness ==
    /\ last.op = "send" /\ last.result = "ok"
    /\ \A l \in Fan :
          /\ l \in listeners
          /\ Len(queue[l]) = 3
          /\ queue[l][3].value = Len(sentLog)

(* a comes before b in seq. *)
Before(seq, a, b) ==
    \E i, j \in DOMAIN seq : i < j /\ seq[i] = a /\ seq[j] = b

(* The subscribers a send with this key is due to, in the order of seq. *)
Due(seq, key) == SelectSeq(seq, LAMBDA l : DotMatch(pattern[l], key))

(* C25, as stated: within one send the matching subscribers are enqueued   *)
(* in the order in which they registered.                                  *)
C25_InsertionOrder ==
    (last.op = "send" /\ last.result = "ok") => last.fan = Due(regOrder, last.key)

(* C25, amended: within one send every registered subscriber whose pattern *)
(* matches is enqueued exactly once, in the order in which the subscriber  *)
(* set yields its entries, which need not be the registration order; two   *)
(* sends with no registration or exit between them enqueue the subscribers *)
(* they share in the same order.                                           *)
C25_SetOrder ==
    [][SendOkStep =>
          /\ Range(last'.fan) = {l \in listeners : DotMatch(pattern[l], last'.key)}
          /\ Len(last'.fan) = Cardinality(Range(last'.fan))
          /\ last'.fan = Due(iterOrder, last'.key)
          /\ (last.op = "send" /\ last.result = "ok") =>
                \A a, b \in Range(last.fan) \cap Range(last'.fan) :
                    Before(last.fan, a, b) <=> Before(last'.fan, a, b)]_vars

(* C25 witness: two sends in a row have each been enqueued for two         *)
(* subscribers, the one that registered later first.                       *)
C25_Witness ==
    /\ last.op = "send" /\ last.result = "ok"
    /\ Len(sentLog) >= 2
    /\ sentLog[Len(sentLog)].live = sentLog[Len(sentLog) - 1].live
    /\ Len(last.fan) = 2
    /\ last.fan # Due(regOrder, last.key)

(* The values stream l has emitted from its queue, in the order emitted. *)
QueuePart(l) ==
    LET q == SelectSeq(emitted[l], LAMBDA e : e.via = "queue")
    IN  [i \in 1..Len(q) |-> q[i].msg.value]

(* The values waiting in the queue of l, sentinels left out. *)
Waiting(l) ==
    LET q == SelectSeq(queue[l], LAMBDA m : m # None)
    IN  [i \in 1..Len(q) |-> q[i].value]

(* C26: a stream emits from its queue in the order of the sends: of two    *)
(* sends that both reach a listener through its queue, the one that        *)
(* completed first is emitted first, and everything already emitted from   *)
(* the queue was sent before everything that still waits in it.  (Values   *)
(* number the sends in the order they completed.)                          *)
C26_QueueOrder ==
    \A l \in Lst :
        LET s == QueuePart(l) \o Waiting(l)
        IN  \A i, j \in DOMAIN s : i < j => s[i] < s[j]

(* C26 witness: a listener has emitted two sends from its queue. *)
C26_Witness ==
    \E l \in Generic :
        /\ Len(QueuePart(l)) >= 2
        /\ QueuePart(l)[1] < QueuePart(l)[2]

(* The positions of bridgeLog that hold this entry. *)
At(op, arg) == {i \in DOMAIN bridgeLog : bridgeLog[i] = Ev(op, arg)}

(* The task running the bridge has been cancelled. *)
Stopped == \E i \in DOMAIN bridgeLog : bridgeLog[i].op = "cancel"

ReceiverRuns == rpc \in {"subscribing", "running", "unsubscribing"}

(* C27, as stated: when the bridge is stopped, the sender is cancelled     *)
(* before the receiver, and the broker connection is closed only after     *)
(* both tasks have stopped, and once.                                      *)
C27_SenderCancelledFirst ==
    Stopped =>
        /\ \A i \in At("cancel", "receiver") : \A j \in At("cancel", "sender") : j < i
        /\ redis = "closed" => (~ReceiverRuns /\ ~Active(Snd))
        /\ Cardinality(At("close", "")) <= 1

(* C27, amended: when the task running the bridge is cancelled, the        *)
(* receiver is cancelled first and the sender, if it still runs, right     *)
(* after it; the receiver then unsubscribes, and the broker connection is  *)
(* closed only after both tasks have ended, and once.                      *)
C27_ReceiverCancelledFirst ==
    Stopped =>
        /\ Cardinality(At("cancel", "receiver")) = 1
        /\ \A i \in At("cancel", "receiver") : \A j \in At("cancel", "sender") : j = i + 1
        /\ \A i \in At("cancel", "receiver") :
              \A j \in At("punsubscribe", redis_pattern(BridgePattern)) : i < j
        /\ redis = "closed" => (~ReceiverRuns /\ ~Active(Snd))
        /\ Cardinality(At("close", "")) <= 1
        /\ \A i \in At("close", "") : i = Len(bridgeLog)

(* C27 witness: a running bridge was cancelled, receiver and then sender,  *)
(* and its connection has been closed.                                     *)
C27_Witness ==
    /\ At("cancel", "receiver") # {}
    /\ At("cancel", "sender") # {}
    /\ redis = "closed"
    /\ rpc = "cancelled"

(* The receiver has left its try statement. *)
ReceiverExited == rpc \in {"failed", "stopped", "cancelled"}

(* C28: on every exit path of the receiver (cancellation, end of the       *)
(* broker's message stream, an exception out of bus.send) the receiver     *)
(* has unsubscribed, once, from exactly the pattern it subscribed to, and  *)
(* it did so before the broker connection was closed.                      *)
C28_UnsubscribedBeforeClose ==
    ReceiverExited =>
        /\ \E p \in {redis_pattern(BridgePattern)} :
              /\ Cardinality(At("psubscribe", p)) = 1
              /\ Cardinality(At("punsubscribe", p)) = 1
        /\ \A i \in DOMAIN bridgeLog :
              bridgeLog[i].op \in {"psubscribe", "punsubscribe"}
                  => bridgeLog[i].arg = redis_pattern(BridgePattern)
        /\ \A i \in At("punsubscribe", redis_pattern(BridgePattern)) :
              \A j \in At("close", "") : i < j

(* Send v went to a key that was in the ChannelStore already. *)
ExistingKey(v) == \E w \in 1..(v - 1) : sentLog[w].key = sentLog[v].key

(* C29: the bus does not deduplicate between the snapshot and the queue.   *)
(* A send made after a listener's registration that the listener's         *)
(* snapshot has emitted is still delivered through the queue: while the    *)
(* stream is live the send is waiting in the queue or has been emitted     *)
(* from it, so that one send can be emitted twice by the same listener,    *)
(* and never more than twice.                                              *)
C29_NoDeduplication ==
    \A l \in Lst : \A v \in 1..Len(sentLog) :
        (SentTo(l, v) /\ SnapEmits(l, v) >= 1)
            => /\ Active(l) => QEmits(l, v) + InQueue(l, v) = 1
               /\ QEmits(l, v) + SnapEmits(l, v) <= 2

(* C29 witness: one send to a key that already existed, made while the     *)
(* listener's snapshot was in progress, has been emitted twice by that     *)
(* listener, once from the snapshot and once from the queue.               *)
C29_Witness ==
    \E l \in Generic : \E v \in 1..Len(sentLog) :
        /\ SentTo(l, v)
        /\ ExistingKey(v)
        /\ SnapEmits(l, v) = 1
        /\ QEmits(l, v) = 1

(* C30: a send made while a listener's snapshot is in progress never makes *)
(* the listener's stream fail.                                             *)
C30_SendNeverBreaksSnapshot ==
    \A l \in Lst : pc[l] # "error"

(* Stream l was live at a close(). *)
LiveAtClose(l) == \E i \in DOMAIN closeLog : l \in closeLog[i]

(* The first close() at which stream l was live: the one whose sentinel    *)
(* the stream meets first.                                                 *)
FirstClose(l) ==
    CHOOSE i \in DOMAIN closeLog :
        l \in closeLog[i] /\ \A j \in 1..(i - 1) : l \notin closeLog[j]

(* Send v was put on the queue of stream l before that close(). *)
QueuedBeforeClose(l, v) ==
    /\ LiveAtClose(l)
    /\ SentTo(l, v)
    /\ sentLog[v].closes < FirstClose(l)

(* C31: drain before termination.  When a stream that was live at a        *)
(* close() has terminated with its consumer still iterating, it has        *)
(* emitted every send that was queued for it before that close(); and a    *)
(* stream that has consumed the sentinel has emitted from its queue only   *)
(* what was sent before the close() that queued the sentinel.              *)
C31_DrainBeforeEnd ==
    \A l \in Lst : \A v \in 1..Len(sentLog) :
        /\ (QueuedBeforeClose(l, v) /\ pc[l] \in {"done", "error"})
              => QEmits(l, v) + SnapEmits(l, v) >= 1
        /\ (pc[l] = "done" /\ QEmits(l, v) >= 1)
              => sentLog[v].closes < FirstClose(l)

(* The same for the streams that the sentinel has ended. *)
DrainOnSentinel ==
    \A l \in Lst : \A v \in 1..Len(sentLog) :
        /\ (QueuedBeforeClose(l, v) /\ pc[l] = "done") => QEmits(l, v) = 1
        /\ (pc[l] = "done" /\ QEmits(l, v) >= 1)
              => sentLog[v].closes < FirstClose(l)

(* The ChannelStore as a set of (key, value) entries other than key k. *)
OtherEntries(ch, k) == {ch[i] : i \in {j \in DOMAIN ch : ch[j].key # k}}

(* C32: the frame of send.  A send that goes through sets the ChannelStore *)
(* entry of its key and leaves every other entry as it was, in place;      *)
(* it changes the queue of no subscriber whose pattern does not match the  *)
(* key, and it changes neither the subscriber set, nor the patterns, nor   *)
(* the connection state.                                                   *)
C32_SendFrame ==
    [][SendOkStep =>
          /\ OtherEntries(channels', last'.key) = OtherEntries(channels, last'.key)
          /\ \A i \in DOMAIN channels : channels'[i].key = channels[i].key
          /\ Cardinality({i \in DOMAIN channels' : channels'[i].key = last'.key}) = 1
          /\ \A i \in DOMAIN channels' :
                channels'[i].key = last'.key => channels'[i].value = Len(sentLog')
          /\ \A l \in Lst :
                ~(l \in listeners /\ DotMatch(pattern[l], last'.key))
                    => queue'[l] = queue[l]
          /\ UNCHANGED <<listeners, iterOrder, pattern, conn>>]_vars

(* C32 witness: a send has gone through with another key in the store, one *)
(* subscriber whose pattern matches its key and holds it, and one whose    *)
(* pattern does not match and whose queue is empty.                        *)
C32_Witness ==
    /\ last.op = "send" /\ last.result = "ok"
    /\ \E i \in DOMAIN channels : channels[i].key # last.key
    /\ \E l, m \in Fan :
          /\ {l, m} \subseteq listeners
          /\ DotMatch(pattern[l], last.key)
          /\ queue[l] # <<>> /\ queue[l][Len(queue[l])].value = Len(sentLog)
          /\ ~DotMatch(pattern[m], last.key)
          /\ queue[m] = <<>>

(* C33: every get or put eventually returns: once the connection is made, *)
(* the read loop of a request ends, whatever the device sends, and the     *)
(* call returns (or has been cancelled by its caller).                     *)
C33_EventuallyReturns ==
    (ypc = "reading") ~> (ypc \in {"returned", "cancelled"})

====
